---- MODULE Spec2Model ----
(***************************************************************************)
(* The codapt client: a remote-execution agent.  A controller sends named  *)
(* events over a socket; the agent runs shell commands (runCommand),       *)
(* drives a one-line loading spinner (startLoading / stopLoading / print)  *)
(* and reads local input (readStdin), acknowledging each event through     *)
(* the event's callback.                                                   *)
(*                                                                         *)
(* JavaScript values are tagged records, so that a number, a string, an    *)
(* error-code name and null stay distinguishable: Num(2), Str(<<"a">>),    *)
(* Sym("ENOENT"), Null.  The content of a stream or of a string is a       *)
(* sequence of characters.                                                 *)
(***************************************************************************)
EXTENDS Integers, Sequences, FiniteSets

\* ------------------------------------------------------------------ bounds

\* runCommand requests the controller sends in one run of the process executor
MaxReq == 1

\* runCommand requests in flight at once in a run of the whole bridge
MaxInFlight == 2

\* timer handles a run hands out: the startLoading calls of a run, main's included
MaxStarts == 3

\* readStdin requests the controller sends in one run
MaxReads == 2

\* pieces of text the terminal's current line holds before print stops adding to it
MaxLine == 2

\* ------------------------------------------------------------------ values

Null == [t |-> "null"]
Num(n) == [t |-> "num", n |-> n]
Str(s) == [t |-> "str", s |-> s]
Sym(c) == [t |-> "sym", c |-> c]

\* JavaScript's a || b: b when a is falsy (null, 0, the empty string)
OrElse(a, b) == IF a = Null \/ a = Num(0) \/ a = Str(<<>>) THEN b ELSE a

\* ----------------------------------------------------- the host platform

\* child_process.exec's default maxBuffer (1024 * 1024 bytes), with stream
\* content counted in blocks of 512 KiB: the largest amount of data exec
\* keeps of stdout or of stderr.
maxBuffer == 2

\* a text one block longer than exec keeps
Big(ch) == [i \in 1..(maxBuffer + 1) |-> ch]

\* The commands the controller sends, by what the shell does with each:
\* whether it reads its standard input to end-of-input, whether it ends on
\* its own, what it writes to each stream, its exit status.
Commands == {"echo a", "echo e >&2; exit 2", "yes | head -c 1572864", "cat", "sleep infinity"}

Program(command, input) ==
  CASE command = "echo a" ->
         [reads |-> FALSE, halts |-> TRUE, out |-> <<"a">>, err |-> <<>>, code |-> 0]
    [] command = "echo e >&2; exit 2" ->
         [reads |-> FALSE, halts |-> TRUE, out |-> <<>>, err |-> <<"e">>, code |-> 2]
    [] command = "yes | head -c 1572864" ->
         [reads |-> FALSE, halts |-> TRUE, out |-> Big("y"), err |-> <<>>, code |-> 0]
    [] command = "cat" ->
         [reads |-> TRUE, halts |-> TRUE, out |-> input, err |-> <<>>, code |-> 0]
    [] command = "sleep infinity" ->
         [reads |-> FALSE, halts |-> FALSE, out |-> <<>>, err |-> <<>>, code |-> 0]

\* CommandPayload: { command, stdin: string | null, timeoutMs: number | null }
Stdins == {Null, Str(<<"h", "i">>), Str(Big("x"))}
Timeouts == {Null, Num(0), Num(200)}
Payloads == [command : Commands, stdin : Stdins, timeoutMs : Timeouts]

\* What spawning the shell can come to: it runs; it cannot be started and
\* the child's streams exist (ENOENT, EACCES); it cannot be started and the
\* child has no streams (EMFILE, ENFILE).
SpawnOutcomes == {"ok", "ENOENT", "EMFILE"}

Reqs == 1..(IF MaxReq > MaxInFlight THEN MaxReq ELSE MaxInFlight)
NoReq == [t |-> "none"]
NoChild == [status |-> "none", stdin |-> FALSE, stdinBuf |-> <<>>, stdinEnded |-> FALSE,
            out |-> <<>>, err |-> <<>>, code |-> Null, signal |-> Null]
NoExec == [timer |-> FALSE, errorPending |-> FALSE, spawnError |-> Null,
           called |-> FALSE, listener |-> FALSE]
Pending == [state |-> "pending"]

VARIABLES
  req,        \* req[r]: the payload of runCommand request r, NoReq before it arrives
  child,      \* child[r]: the child process of request r
  execSt,     \* execSt[r]: exec's bookkeeping for request r
  promise,    \* promise[r]: the promise runCommand(payload) returned
  jobs,       \* the microtask queue: promise reactions waiting to run
  acks,       \* acks[r]: the values request r's callback was invoked with, in order
  term,       \* the terminal presenter: loadingInterval, lastLoadingLineWritten, the
              \* live timers and what the terminal shows
  stdin,      \* process.stdin: whether it flows, its "data" listeners, the reads acknowledged
  conn        \* the process and its socket: "connecting", "connected", "exited"

execVars == <<req, child, execSt, promise, jobs, acks>>
termVars == <<term, stdin>>
vars == <<req, child, execSt, promise, jobs, acks, term, stdin, conn>>

\* --------------------------------------------------------------- promises

\* resolve(v) and reject(v) of runCommand's promise, with the reactions the
\* runCommand handler attached: .then(response => callback(response))
\* .catch(error => callback(error)).  Settling a settled promise does nothing.
\* h is the pair of promise and jobs an action threads through its calls.
Resolve(h, r, v) ==
  IF h.promise[r].state = "pending"
  THEN [promise |-> [h.promise EXCEPT ![r] = [state |-> "fulfilled", value |-> v]],
        jobs |-> Append(h.jobs, [req |-> r, handler |-> "then", value |-> v])]
  ELSE h

\* a reject that does not look at the promise's state
RejectAlways(h, r, v) ==
  [promise |-> [h.promise EXCEPT ![r] = [state |-> "rejected", value |-> v]],
   jobs |-> Append(h.jobs, [req |-> r, handler |-> "catch", value |-> v])]

Reject(h, r, v) ==
  IF h.promise[r].state = "pending"
  THEN [promise |-> [h.promise EXCEPT ![r] = [state |-> "rejected", value |-> v]],
        jobs |-> Append(h.jobs, [req |-> r, handler |-> "catch", value |-> v])]
  ELSE h

\* ------------------------------------------------------------- dispatch

\* a request that arrived and was not acknowledged
InFlight(r) == req[r] # NoReq /\ acks[r] = <<>>

\* a dispatch that waits for the commands in flight
CanDispatchSerial == conn = "connected" /\ jobs = <<>> /\ \A r \in Reqs : ~InFlight(r)

\* The socket hands an inbound event to its handler: the agent is connected
\* and the event loop is between tasks, no microtask waiting.  No handler
\* waits for an earlier request: runCommand's returns as soon as the promise
\* and its reactions exist, readStdin's as soon as the listener is added.
CanDispatch == conn = "connected" /\ jobs = <<>>

\* ------------------------------------------------------- process executor

\* exec's timeout option: timeoutMs ?? undefined, and undefined is the default 0
ExecTimeout(timeoutMs) == IF timeoutMs = Null THEN 0 ELSE timeoutMs.n

\* exec arms its kill timer only for a timeout greater than 0
TimerArmed(timeoutMs) == ExecTimeout(timeoutMs) > 0

\* what exec keeps of a stream
Truncate(s) == SubSeq(s, 1, IF Len(s) > maxBuffer THEN maxBuffer ELSE Len(s))

Overflows(c) == Len(c.out) > maxBuffer \/ Len(c.err) > maxBuffer

\* The error exec hands to its completion callback: null for exit status 0
\* with nothing gone wrong; the spawn error; the maxBuffer error; else an
\* error whose code is the exit status, null for a child ended by a signal.
ExecError(c, e) ==
  IF e.spawnError # Null THEN [code |-> e.spawnError, killed |-> FALSE, signal |-> Null]
  ELSE IF Overflows(c)
    THEN [code |-> Sym("ERR_CHILD_PROCESS_STDIO_MAXBUFFER"), killed |-> TRUE, signal |-> c.signal]
  ELSE IF c.code = Num(0) /\ c.signal = Null THEN Null
  ELSE [code |-> c.code, killed |-> c.signal # Null, signal |-> c.signal]

\* the completion callback runCommand passes to exec
CompletionResult(error, stdout, stderr) ==
  IF error # Null
  THEN [exitCode |-> OrElse(error.code, Num(-1)), stdout |-> stdout, stderr |-> stderr]
  ELSE [exitCode |-> Num(0), stdout |-> stdout, stderr |-> stderr]

\* the value the child's "error" listener rejects with
SpawnMessage(code) == <<"spawn /bin/sh ", code.c>>
ErrorResult(err) == [exitCode |-> Num(-1), stdout |-> <<>>, stderr |-> err.message]

\* the Error thrown when the child has no stdin stream
StdinError == [t |-> "Error", message |-> <<"unexpected: child.stdin is null">>]

\* child.stdin.write(stdin); child.stdin.end()
WriteStdin(c, s) == [c EXCEPT !.stdinBuf = c.stdinBuf \o s, !.stdinEnded = TRUE]

\* the child exec(command, { timeout }) returns, by what spawning came to
Spawned(outcome) ==
  [NoChild EXCEPT !.status = IF outcome = "ok" THEN "running" ELSE "nospawn",
                  !.stdin = outcome # "EMFILE"]

\* socket.on("runCommand"): runCommand(payload) runs the promise executor to
\* its end (exec, the write to the child's stdin, the "error" listener) and
\* attaches the reactions.  The inbound event is a task of the event loop,
\* which starts none while a microtask waits.
RunCommandEvt(r, payload, outcome) ==
  /\ CanDispatch
  /\ req[r] = NoReq
  /\ \A q \in Reqs : q < r => req[q] # NoReq
  /\ LET c == Spawned(outcome)
         throws == payload.stdin # Null /\ ~c.stdin
         h == [promise |-> [promise EXCEPT ![r] = Pending], jobs |-> jobs]
         h2 == IF throws THEN Reject(h, r, StdinError) ELSE h
     IN /\ req' = [req EXCEPT ![r] = payload]
        /\ child' = [child EXCEPT ![r] =
                       IF payload.stdin # Null /\ c.stdin
                       THEN WriteStdin(c, payload.stdin.s) ELSE c]
        /\ execSt' = [execSt EXCEPT ![r] =
                        [NoExec EXCEPT !.timer = outcome = "ok" /\ TimerArmed(payload.timeoutMs),
                                       !.errorPending = outcome # "ok",
                                       !.spawnError = IF outcome = "ok" THEN Null ELSE Sym(outcome),
                                       !.listener = ~throws]]
        /\ promise' = h2.promise
        /\ jobs' = h2.jobs
  /\ UNCHANGED <<acks, term, stdin, conn>>

\* The child ends on its own: it has written its output and exits with its
\* status.  A child that reads its input does so once the input has ended.
ChildExit(r) ==
  /\ conn # "exited"
  /\ child[r].status = "running"
  /\ LET p == Program(req[r].command, child[r].stdinBuf)
     IN /\ p.halts
        /\ p.reads => child[r].stdinEnded
        /\ child' = [child EXCEPT ![r].status = "exited", ![r].out = p.out,
                                  ![r].err = p.err, ![r].code = Num(p.code)]
  /\ UNCHANGED <<req, execSt, promise, jobs, acks, term, stdin, conn>>

\* exec ends a child that has written more than maxBuffer to a stream
MaxBufferKill(r) ==
  /\ conn # "exited"
  /\ child[r].status = "running"
  /\ LET p == Program(req[r].command, child[r].stdinBuf)
     IN /\ p.halts
        /\ p.reads => child[r].stdinEnded
        /\ Len(p.out) > maxBuffer \/ Len(p.err) > maxBuffer
        /\ child' = [child EXCEPT ![r].status = "exited", ![r].out = p.out,
                                  ![r].err = p.err, ![r].signal = Sym("SIGTERM")]
  /\ UNCHANGED <<req, execSt, promise, jobs, acks, term, stdin, conn>>

\* exec's kill timer fires on a child still running
TimeoutKill(r) ==
  /\ conn # "exited"
  /\ jobs = <<>>
  /\ execSt[r].timer
  /\ child[r].status = "running"
  /\ child' = [child EXCEPT ![r].status = "exited", ![r].signal = Sym("SIGTERM")]
  /\ execSt' = [execSt EXCEPT ![r].timer = FALSE]
  /\ UNCHANGED <<req, promise, jobs, acks, term, stdin, conn>>

\* The child has ended and its streams are closed: exec calls the completion
\* callback, once, which resolves the promise.
OnClose(r) ==
  /\ conn # "exited"
  /\ jobs = <<>>
  /\ child[r].status = "exited"
  /\ ~execSt[r].called
  /\ LET c == child[r]
         v == CompletionResult(ExecError(c, execSt[r]), Truncate(c.out), Truncate(c.err))
         h == Resolve([promise |-> promise, jobs |-> jobs], r, v)
     IN /\ promise' = h.promise
        /\ jobs' = h.jobs
  /\ execSt' = [execSt EXCEPT ![r].called = TRUE, ![r].timer = FALSE]
  /\ UNCHANGED <<req, child, acks, term, stdin, conn>>

\* The child's "error" event after a failed spawn.  Its listeners run in the
\* order they were added: exec's own, which calls the completion callback with
\* the spawn error and nothing captured, then the one runCommand added.
OnError(r) ==
  /\ conn # "exited"
  /\ jobs = <<>>
  /\ execSt[r].errorPending
  /\ LET e == execSt[r]
         err == [code |-> e.spawnError, message |-> SpawnMessage(e.spawnError)]
         v == CompletionResult(ExecError(child[r], e), <<>>, <<>>)
         h1 == IF e.called THEN [promise |-> promise, jobs |-> jobs]
               ELSE Resolve([promise |-> promise, jobs |-> jobs], r, v)
         h2 == IF e.listener THEN Reject(h1, r, ErrorResult(err)) ELSE h1
     IN /\ promise' = h2.promise
        /\ jobs' = h2.jobs
  /\ execSt' = [execSt EXCEPT ![r].errorPending = FALSE, ![r].called = TRUE]
  /\ UNCHANGED <<req, child, acks, term, stdin, conn>>

\* A promise reaction of the runCommand handler runs: callback(response) for
\* a fulfilled promise, callback(error) for a rejected one.
RunJob ==
  /\ conn # "exited"
  /\ jobs # <<>>
  /\ LET j == Head(jobs)
     IN acks' = [acks EXCEPT ![j.req] = Append(@, j.value)]
  /\ jobs' = Tail(jobs)
  /\ UNCHANGED <<req, child, execSt, promise, term, stdin, conn>>

\* ----------------------------------------------------- terminal presenter

SpinnerChars == <<"|", "/", "-", "\\">>

\* the text main shows while connecting, and the texts the controller sends
ConnectingText == "Connecting to server..."
LoadingTexts == {"Working", "Still working"}
LoadingTimeouts == {Null, Num(100)}

\* What is written to the terminal is a sequence of pieces of text, the line
\* separator a piece of its own.  The texts the controller prints: a prompt
\* without a line separator, a full line.
PrintTexts == {<<"p">>, <<"q", "\n">>}

\* "\u001b[0G\u001b[2K": the cursor to column 0, the whole line erased
ClearCode == <<"ESC[0G", "ESC[2K">>

\* the pieces of a text that show: the empty string shows nothing
Shown(s) == SelectSeq(s, LAMBDA x : x # "")

Chars(s) == {s[k] : k \in 1..Len(s)}

\* the place of the last line separator of a text, 0 when it has none
LastBreak(s) ==
  LET at == {k \in 1..Len(s) : s[k] = "\n"}
  IN IF at = {} THEN 0 ELSE CHOOSE k \in at : \A m \in at : m <= k

\* process.stdout.write(text) on the terminal T: the text goes on the current
\* line; a line separator moves what the line holds up into the scrollback.
Write(T, text) ==
  LET k == LastBreak(text)
  IN [T EXCEPT !.out = Append(@, text),
               !.scroll = IF k = 0 THEN @
                          ELSE @ \cup ((Chars(T.cur) \cup Chars(SubSeq(text, 1, k))) \ {"\n", ""}),
               !.cur = IF k = 0 THEN T.cur \o Shown(text)
                      ELSE Shown(SubSeq(text, k + 1, Len(text)))]

\* clearLine(): the current line is erased
ClearLine(T) == [T EXCEPT !.out = Append(@, ClearCode), !.cur = <<>>]

\* writeLastLoadingLine()
WriteLastLoadingLine(T) == Write(T, <<T.lastLoadingLineWritten>>)

\* clearInterval(loadingInterval)
ClearInterval(T) == [T EXCEPT !.intervals = {iv \in @ : iv.h # T.loadingInterval}]

\* a stopLoading without clearInterval
StopLoadingKeepInterval(T) ==
  IF T.loadingInterval # 0
  THEN ClearLine([T EXCEPT !.loadingInterval = 0])
  ELSE T

\* a stopLoading that leaves the status line on the terminal
StopLoadingNoClear(T) ==
  IF T.loadingInterval # 0
  THEN [ClearInterval(T) EXCEPT !.loadingInterval = 0]
  ELSE T

\* a stopLoading that clears the line whether or not the terminal is Loading
StopLoadingAlways(T) ==
  ClearLine([ClearInterval(T) EXCEPT !.loadingInterval = 0])

\* stopLoading()
StopLoading(T) ==
  IF T.loadingInterval # 0
  THEN ClearLine([ClearInterval(T) EXCEPT !.loadingInterval = 0])
  ELSE T

\* startLoading(text, timeoutMs): the deadline timer is a one-shot setTimeout
\* whose handle is dropped; the redraw interval's handle is loadingInterval.
\* The timer carries the handle of the interval set in the same call (armedBy),
\* which the code does not keep.
StartLoading(T, text, timeoutMs) ==
  LET T1 == StopLoading(T)
      h == T1.nextHandle
      T2 == IF timeoutMs # Null
            THEN [T1 EXCEPT !.timeouts = @ \cup {[armedBy |-> h, ms |-> timeoutMs.n]}]
            ELSE T1
  IN [T2 EXCEPT !.intervals = @ \cup {[h |-> h, text |-> text, i |-> 0]},
                !.loadingInterval = h,
                !.nextHandle = h + 1]

\* one run of the redraw interval's callback
Redraw(T, iv) ==
  LET T1 == ClearLine(T)
      T2 == [T1 EXCEPT !.lastLoadingLineWritten = SpinnerChars[iv.i + 1] \o " " \o iv.text]
      T3 == WriteLastLoadingLine(T2)
  IN [T3 EXCEPT !.intervals = (@ \ {iv}) \cup {[iv EXCEPT !.i = (iv.i + 1) % Len(SpinnerChars)]}]

\* the print handler's writes
PrintText(T, text) ==
  LET T1 == IF T.loadingInterval # 0 THEN ClearLine(T) ELSE T
      T2 == Write(T1, text)
  IN IF T2.loadingInterval # 0 THEN WriteLastLoadingLine(T2) ELSE T2

\* the writes of one handler start a fresh record of writes
Fresh(T) == [T EXCEPT !.out = <<>>]

\* main(): startLoading("Connecting to server...", 5000), then connect(server)
\* and the handlers' registration
AfterMain ==
  StartLoading([loadingInterval |-> 0, intervals |-> {}, timeouts |-> {},
                lastLoadingLineWritten |-> "", nextHandle |-> 1,
                cur |-> <<>>, scroll |-> {}, out |-> <<>>],
               ConnectingText, Num(5000))

\* socket.on("connect")
Connect ==
  /\ conn = "connecting"
  /\ conn' = "connected"
  /\ term' = StopLoading(Fresh(term))
  /\ UNCHANGED <<req, child, execSt, promise, jobs, acks, stdin>>

\* socket.on("getEnvInfo"): callback(envInfo), nothing of the agent changes
GetEnvInfoEvt ==
  /\ CanDispatch
  /\ UNCHANGED <<req, child, execSt, promise, jobs, acks, term, stdin, conn>>

\* socket.on("startLoading")
StartLoadingEvt(text, timeoutMs) ==
  /\ CanDispatch
  /\ term.nextHandle <= MaxStarts
  /\ term' = StartLoading(Fresh(term), text, timeoutMs)
  /\ UNCHANGED <<req, child, execSt, promise, jobs, acks, stdin, conn>>

\* socket.on("stopLoading")
StopLoadingEvt ==
  /\ CanDispatch
  /\ term' = StopLoading(Fresh(term))
  /\ UNCHANGED <<req, child, execSt, promise, jobs, acks, stdin, conn>>

\* socket.on("print")
PrintEvt(text) ==
  /\ CanDispatch
  /\ Len(PrintText(term, text).cur) <= MaxLine
  /\ term' = PrintText(Fresh(term), text)
  /\ UNCHANGED <<req, child, execSt, promise, jobs, acks, stdin, conn>>

\* the redraw interval's callback runs, every 100 ms while the interval is live
Tick(iv) ==
  /\ conn # "exited"
  /\ jobs = <<>>
  /\ iv \in term.intervals
  /\ term' = Redraw(Fresh(term), iv)
  /\ UNCHANGED <<req, child, execSt, promise, jobs, acks, stdin, conn>>

\* a deadline timer fires: () => { stopLoading(); }
DeadlineFire(t) ==
  /\ conn # "exited"
  /\ jobs = <<>>
  /\ t \in term.timeouts
  /\ term' = StopLoading([Fresh(term) EXCEPT !.timeouts = @ \ {t}])
  /\ UNCHANGED <<req, child, execSt, promise, jobs, acks, stdin, conn>>

\* ---------------------------------------------------------- input capture

\* what the local input source delivers in one "data" event: a line, two
\* lines at once, a part of a line
InputChunks == {<<"l", "\n">>, <<"l", "\n", "m", "\n">>, <<"l">>}

ReadIds == 1..MaxReads

\* a readStdin handler without its stopLoading()
ReadStdinNoStop(k) ==
  /\ CanDispatch
  /\ k = stdin.nextRead
  /\ k \in ReadIds
  /\ term' = Fresh(term)
  /\ stdin' = [stdin EXCEPT !.flowing = TRUE,
                            !.listeners = Append(@, k),
                            !.nextRead = k + 1]
  /\ UNCHANGED <<req, child, execSt, promise, jobs, acks, conn>>

\* socket.on("readStdin"): stopLoading(), process.stdin.resume(), setEncoding,
\* and a once("data") listener holding the request's callback
ReadStdinEvt(k) ==
  /\ CanDispatch
  /\ k = stdin.nextRead
  /\ k \in ReadIds
  /\ term' = StopLoading(Fresh(term))
  /\ stdin' = [stdin EXCEPT !.flowing = TRUE,
                            !.listeners = Append(@, k),
                            !.nextRead = k + 1]
  /\ UNCHANGED <<req, child, execSt, promise, jobs, acks, conn>>

\* process.stdin emits "data": every once("data") listener runs, in the order
\* added, and is removed; each pauses the stream and calls its callback with
\* text.toString()
StdinData(chunk) ==
  /\ conn # "exited"
  /\ jobs = <<>>
  /\ stdin.flowing
  /\ stdin.listeners # <<>>
  /\ stdin' = [stdin EXCEPT !.flowing = FALSE,
                            !.listeners = <<>>,
                            !.readAcks = [k \in ReadIds |->
                               IF \E n \in 1..Len(stdin.listeners) : stdin.listeners[n] = k
                               THEN Append(@[k], chunk) ELSE @[k]]]
  /\ UNCHANGED <<req, child, execSt, promise, jobs, acks, term, conn>>

\* ------------------------------------------------------------ termination

\* a terminate that waits for the commands in flight
TerminateGraceful ==
  /\ CanDispatch
  /\ \A r \in Reqs : ~InFlight(r)
  /\ conn' = "exited"
  /\ UNCHANGED <<req, child, execSt, promise, jobs, acks, term, stdin>>

\* socket.on("terminate"): process.exit(0)
Terminate ==
  /\ CanDispatch
  /\ conn' = "exited"
  /\ UNCHANGED <<req, child, execSt, promise, jobs, acks, term, stdin>>

\* socket.on("disconnect"): process.exit(0)
Disconnect ==
  /\ CanDispatch
  /\ conn' = "exited"
  /\ UNCHANGED <<req, child, execSt, promise, jobs, acks, term, stdin>>

\* ------------------------------------------------------- specifications

Init ==
  /\ req = [r \in Reqs |-> NoReq]
  /\ child = [r \in Reqs |-> NoChild]
  /\ execSt = [r \in Reqs |-> NoExec]
  /\ promise = [r \in Reqs |-> Pending]
  /\ jobs = <<>>
  /\ acks = [r \in Reqs |-> <<>>]
  /\ term = AfterMain
  /\ stdin = [flowing |-> FALSE, listeners |-> <<>>, nextRead |-> 1,
              readAcks |-> [k \in ReadIds |-> <<>>]]
  /\ conn = "connecting"

\* The process executor alone: one connection, the runCommand requests with
\* every payload and every outcome of the spawn, and what follows from them.
NextExec ==
  \/ Connect
  \/ \E r \in 1..MaxReq, payload \in Payloads, outcome \in SpawnOutcomes :
       RunCommandEvt(r, payload, outcome)
  \/ \E r \in Reqs : ChildExit(r)
  \/ \E r \in Reqs : MaxBufferKill(r)
  \/ \E r \in Reqs : TimeoutKill(r)
  \/ \E r \in Reqs : OnClose(r)
  \/ \E r \in Reqs : OnError(r)
  \/ RunJob

SpecExec == Init /\ [][NextExec]_vars

\* The event loop runs what is ready: a child that ends on its own ends, a
\* timer that is armed fires, a callback that is due is called.
FairSpecExec ==
  /\ SpecExec
  /\ \A r \in Reqs : WF_vars(ChildExit(r)) /\ WF_vars(TimeoutKill(r))
                     /\ WF_vars(OnClose(r)) /\ WF_vars(OnError(r))
  /\ WF_vars(RunJob)

\* The terminal presenter alone: the events that touch the terminal, the
\* timers and the local input, which delivers whole lines.
NextTerm ==
  \/ Connect
  \/ \E text \in LoadingTexts, timeoutMs \in LoadingTimeouts : StartLoadingEvt(text, timeoutMs)
  \/ StopLoadingEvt
  \/ \E text \in PrintTexts : PrintEvt(text)
  \/ \E k \in ReadIds : ReadStdinEvt(k)
  \/ \E chunk \in {<<"l", "\n">>} : StdinData(chunk)
  \/ \E iv \in term.intervals : Tick(iv)
  \/ \E t \in term.timeouts : DeadlineFire(t)
  \/ Terminate
  \/ Disconnect

SpecTerm == Init /\ [][NextTerm]_vars

\* The whole bridge: commands in flight together with every other inbound
\* event.  The commands are a short one and one that runs until its timeout.
\* The spinner's timers, which share no state with the executor, are left to
\* SpecTerm.
BridgePayloads ==
  {[command |-> "echo a", stdin |-> Null, timeoutMs |-> Null],
   [command |-> "sleep infinity", stdin |-> Null, timeoutMs |-> Num(200)]}

NextBridge ==
  \/ Connect
  \/ \E r \in 1..MaxInFlight, payload \in BridgePayloads : RunCommandEvt(r, payload, "ok")
  \/ \E r \in Reqs : ChildExit(r)
  \/ \E r \in Reqs : TimeoutKill(r)
  \/ \E r \in Reqs : OnClose(r)
  \/ RunJob
  \/ GetEnvInfoEvt
  \/ StartLoadingEvt("Working", Null)
  \/ StopLoadingEvt
  \/ PrintEvt(<<"q", "\n">>)
  \/ \E k \in ReadIds : ReadStdinEvt(k)
  \/ StdinData(<<"l", "\n">>)
  \/ Terminate
  \/ Disconnect

SpecBridge == Init /\ [][NextBridge]_vars

\* The input capture alone: prompts, readStdin requests, one loading session
\* at a time, and a local input source that delivers what a terminal or a
\* pipe can: a line, several lines at once, a part of a line.
NextInput ==
  \/ Connect
  \/ \E text \in PrintTexts : PrintEvt(text)
  \/ \E k \in ReadIds : ReadStdinEvt(k)
  \/ \E chunk \in InputChunks : StdinData(chunk)
  \/ StartLoadingEvt("Working", Null)
  \/ StopLoadingEvt
  \/ \E iv \in term.intervals : Tick(iv)

SpecInput == Init /\ [][NextInput]_vars

\* the agent whole
Next == NextExec \/ NextTerm \/ NextBridge \/ NextInput

Spec == Init /\ [][Next]_vars

\* ------------------------------------------------------------- properties

\* request r has run its course: the child ended or never started, exec
\* called the completion callback, no event or reaction of r is still due
Delivered(r) ==
  /\ req[r] # NoReq
  /\ child[r].status \in {"exited", "nospawn"}
  /\ execSt[r].called
  /\ ~execSt[r].errorPending
  /\ \A n \in 1..Len(jobs) : jobs[n].req # r

ExitedNormally(r) == child[r].status = "exited" /\ child[r].signal = Null

\* C1: the callback of a runCommand request is never invoked twice, and it
\* has been invoked once when the request has run its course (the child
\* exited, was killed by the timeout, or could not be spawned).
C1_AckExactlyOnce ==
  \A r \in Reqs :
    /\ Len(acks[r]) <= 1
    /\ Delivered(r) => Len(acks[r]) = 1

\* a spawn failure whose "error" event ran both exec's callback and the
\* listener of runCommand, acknowledged once
C1_Witness ==
  \E r \in Reqs :
    /\ child[r].status = "nospawn"
    /\ execSt[r].listener
    /\ Delivered(r)
    /\ promise[r].state = "fulfilled"
    /\ Len(acks[r]) = 1

\* C2: a command whose child exits normally with code c is acknowledged with
\* exitCode = c and with stdout and stderr exactly what the child wrote.
C2_ExitCodeAndStreams ==
  \A r \in Reqs :
    (ExitedNormally(r) /\ acks[r] # <<>>) =>
      acks[r][1] = [exitCode |-> child[r].code, stdout |-> child[r].out,
                    stderr |-> child[r].err]

\* C2, for a child that wrote no more than maxBuffer to either stream
C2_WithinMaxBuffer ==
  \A r \in Reqs :
    (ExitedNormally(r) /\ ~Overflows(child[r]) /\ acks[r] # <<>>) =>
      acks[r][1] = [exitCode |-> child[r].code, stdout |-> child[r].out,
                    stderr |-> child[r].err]

NeverEnds(r) == child[r].status = "running" /\ ~Program(req[r].command, <<>>).halts

AckedWith(r, code) ==
  /\ acks[r] # <<>>
  /\ "exitCode" \in DOMAIN acks[r][1]
  /\ acks[r][1].exitCode = code

\* C3: a command that never ends on its own, sent with a non-null timeoutMs
\* (0 included), is killed and eventually acknowledged with exitCode = -1.
C3_TimeoutEnds ==
  \A r \in Reqs :
    (NeverEnds(r) /\ req[r].timeoutMs # Null) ~> AckedWith(r, Num(-1))

\* C3, for a timeoutMs greater than 0
C3_PositiveTimeoutEnds ==
  \A r \in Reqs :
    (NeverEnds(r) /\ TimerArmed(req[r].timeoutMs)) ~> AckedWith(r, Num(-1))

\* C4: when the child cannot be spawned, the request is acknowledged with
\* exitCode = -1, an empty stdout and a non-empty stderr.
C4_SpawnFailureShape ==
  \A r \in Reqs :
    (child[r].status = "nospawn" /\ acks[r] # <<>>) =>
      LET a == acks[r][1]
      IN /\ DOMAIN a = {"exitCode", "stdout", "stderr"}
         /\ a.exitCode = Num(-1)
         /\ a.stdout = <<>>
         /\ a.stderr # <<>>

\* C5: a child spawned for a request with a non-null stdin s has exactly s on
\* its standard input, ended; and a command that echoes its input and exits
\* normally is acknowledged with stdout = s.
C5_StdinDelivered ==
  \A r \in Reqs :
    (child[r].status \in {"running", "exited"} /\ req[r].stdin # Null) =>
      /\ child[r].stdinBuf = req[r].stdin.s
      /\ child[r].stdinEnded
      /\ (req[r].command = "cat" /\ ExitedNormally(r) /\ acks[r] # <<>>) =>
           acks[r][1].stdout = req[r].stdin.s

\* C5 without the echo: what the child has on its standard input
C5_StdinOnly ==
  \A r \in Reqs :
    (child[r].status \in {"running", "exited"} /\ req[r].stdin # Null) =>
      /\ child[r].stdinBuf = req[r].stdin.s
      /\ child[r].stdinEnded

\* C6: with stdin = null and timeoutMs = null, a command that reads its
\* standard input to end-of-input eventually exits and is acknowledged.
C6_NullStdinIsClosed ==
  \A r \in Reqs :
    (/\ child[r].status = "running"
     /\ Program(req[r].command, <<>>).reads
     /\ req[r].stdin = Null
     /\ req[r].timeoutMs = Null) ~> (acks[r] # <<>>)

\* the request that arrives next
NextReq == CHOOSE r \in Reqs : req[r] = NoReq /\ \A q \in Reqs : q < r => req[q] # NoReq

\* C7: while a runCommand request is in flight, every other inbound event is
\* still dispatched (its handler runs, and with it the callback of print,
\* startLoading, stopLoading and getEnvInfo), a further runCommand included;
\* the bounds of the run apart.
C7_NotSerialized ==
  (conn = "connected" /\ jobs = <<>> /\ \E r \in Reqs : InFlight(r)) =>
    /\ ENABLED GetEnvInfoEvt
    /\ ENABLED StopLoadingEvt
    /\ term.nextHandle <= MaxStarts => ENABLED StartLoadingEvt("Working", Null)
    /\ Len(PrintText(term, <<"q", "\n">>).cur) <= MaxLine => ENABLED PrintEvt(<<"q", "\n">>)
    /\ stdin.nextRead \in ReadIds => ENABLED ReadStdinEvt(stdin.nextRead)
    /\ (\E q \in 1..MaxInFlight : req[q] = NoReq) =>
         \A payload \in BridgePayloads : ENABLED RunCommandEvt(NextReq, payload, "ok")

\* the request dispatched second is acknowledged and the first still in flight
C7_Witness ==
  /\ InFlight(1)
  /\ req[2] # NoReq
  /\ Len(acks[2]) = 1

\* C8: at most one redraw interval is live, and one is live exactly when
\* loadingInterval is non-null: the one whose handle loadingInterval holds.
C8_OneRedrawCycle ==
  /\ Cardinality(term.intervals) <= 1
  /\ term.intervals # {} <=> term.loadingInterval # 0
  /\ \A iv \in term.intervals : iv.h = term.loadingInterval

\* a startLoading that arrived while Loading: it cleared the line of the
\* session before it and set the third interval of the run
C8_Witness ==
  /\ term.loadingInterval = 3
  /\ term.out = <<ClearCode>>
  /\ Cardinality(term.intervals) = 1

Glyphs == {SpinnerChars[k] : k \in 1..Len(SpinnerChars)}
StatusLines(text) == {g \o " " \o text : g \in Glyphs}
OtherTexts(text) == ({ConnectingText} \cup LoadingTexts) \ {text}

\* the text of the loading session in progress
CurrentText == (CHOOSE iv \in term.intervals : iv.h = term.loadingInterval).text

\* C9: while Loading, no write to the terminal holds a status line with the
\* text of an earlier startLoading: what the latest handler or timer callback
\* wrote holds no status line of another text than the session's.
C9_TextSuperseded ==
  term.loadingInterval # 0 =>
    \A n \in 1..Len(term.out) : \A old \in OtherTexts(CurrentText) :
      Chars(term.out[n]) \cap StatusLines(old) = {}

\* C10: a deadline timer that fires and ends a loading session was armed by
\* the startLoading call that began that session.
C10_DeadlineOwnSession ==
  [][\A t \in term.timeouts :
       (/\ term'.timeouts = term.timeouts \ {t}
        /\ term.loadingInterval # 0
        /\ term'.loadingInterval = 0) => t.armedBy = term.loadingInterval]_vars

AllTexts == {ConnectingText} \cup LoadingTexts

\* the terminal T is Idle: no redraw interval, no status line on the current line
Idle(T) ==
  /\ T.loadingInterval = 0
  /\ T.intervals = {}
  /\ \A text \in AllTexts : Chars(T.cur) \cap StatusLines(text) = {}

\* C11: when a deadline timer fires, the terminal is Idle after it: the redraw
\* interval is cancelled and the status line cleared, by the timer's callback
\* alone.
C11_DeadlineReturnsToIdle ==
  [][\A t \in term.timeouts :
       term'.timeouts = term.timeouts \ {t} => Idle(term')]_vars

\* the deadline of main's startLoading("Connecting to server...", 5000) fired
\* before the connection was made, while its status line showed: no handler
\* has run, and the timer's callback cleared the line
C11_Witness ==
  /\ conn = "connecting"
  /\ term.timeouts = {}
  /\ term.lastLoadingLineWritten \in StatusLines(ConnectingText)
  /\ term.out = <<ClearCode>>
  /\ Idle(term)

\* C12: a print handled while Loading leaves the redraw interval armed, and
\* what it writes is the clearing of the line, the text verbatim, then a
\* status line with the text of the loading session in progress.
C12_PrintKeepsLoading ==
  [][\A text \in PrintTexts :
       (PrintEvt(text) /\ term.loadingInterval # 0) =>
         /\ term'.loadingInterval = term.loadingInterval
         /\ term'.intervals = term.intervals
         /\ Len(term'.out) = 3
         /\ term'.out[1] = ClearCode
         /\ term'.out[2] = text
         /\ Chars(term'.out[3]) \subseteq StatusLines(CurrentText)]_vars

\* C12 without the text of the status line: the interval stays armed, the
\* line is cleared, the text written verbatim, lastLoadingLineWritten rewritten
C12_PrintKeepsInterval ==
  [][\A text \in PrintTexts :
       (PrintEvt(text) /\ term.loadingInterval # 0) =>
         /\ term'.loadingInterval = term.loadingInterval
         /\ term'.intervals = term.intervals
         /\ term'.out = <<ClearCode, text, <<term.lastLoadingLineWritten>>>>]_vars

\* a handler or timer callback wrote a status line
WroteStatusLine(T) ==
  \E n \in 1..Len(T.out) : \E text \in AllTexts :
    Chars(T.out[n]) \cap StatusLines(text) # {}

\* C13: a readStdin handled while Loading cancels the redraw interval and
\* clears the line, and arms its listener on a terminal that is Idle; and
\* while a listener waits and no startLoading has begun a new session, no
\* redraw interval is live and nothing that runs writes a status line.
C13_CaptureStopsSpinner ==
  /\ [][\A k \in ReadIds :
          (ReadStdinEvt(k) /\ term.loadingInterval # 0) =>
            /\ term'.out = <<ClearCode>>
            /\ Idle(term')
            /\ stdin'.listeners = Append(stdin.listeners, k)]_vars
  /\ []((stdin.listeners # <<>> /\ term.loadingInterval = 0) =>
          (term.intervals = {} /\ ~WroteStatusLine(term)))

\* a readStdin arrived during the session that startLoading began after the
\* connection: its listener waits, the line is cleared, no interval is live
C13_Witness ==
  /\ stdin.listeners = <<1>>
  /\ term.nextHandle = 3
  /\ term.lastLoadingLineWritten \in StatusLines("Working")
  /\ term.out = <<ClearCode>>
  /\ Idle(term)

\* the place of the first line separator of a text, 0 when it has none
FirstBreak(s) ==
  LET at == {k \in 1..Len(s) : s[k] = "\n"}
  IN IF at = {} THEN 0 ELSE CHOOSE k \in at : \A m \in at : k <= m

\* the next line a chunk of input supplies, with and without its separator;
\* a chunk without a separator supplies no line yet
NextLine(chunk) ==
  LET k == FirstBreak(chunk)
  IN IF k = 0 THEN {} ELSE {SubSeq(chunk, 1, k), SubSeq(chunk, 1, k - 1)}

Last(s) == s[Len(s)]

\* C14: when the input source delivers a chunk, each readStdin request that
\* is acknowledged is acknowledged with the next single line of the input,
\* whether the chunk holds one line, several lines or a part of a line.
C14_AckIsNextLine ==
  [][\A chunk \in InputChunks :
       StdinData(chunk) =>
         \A n \in 1..Len(stdin.listeners) :
           LET k == stdin.listeners[n]
           IN /\ Len(stdin'.readAcks[k]) = Len(stdin.readAcks[k]) + 1
              /\ Last(stdin'.readAcks[k]) \in NextLine(chunk)]_vars

\* C14, for a chunk that is one whole line
C14_WholeLineChunk ==
  [][StdinData(<<"l", "\n">>) =>
       \A n \in 1..Len(stdin.listeners) :
         LET k == stdin.listeners[n]
         IN /\ Len(stdin'.readAcks[k]) = Len(stdin.readAcks[k]) + 1
            /\ Last(stdin'.readAcks[k]) \in NextLine(<<"l", "\n">>)]_vars

\* C15: the redraw interval and a stdin listener are never armed at the same
\* time; the terminal is Loading or capturing input, not both.
C15_OneActiveMode ==
  ~(term.loadingInterval # 0 /\ stdin.listeners # <<>>)

\* C16: at most one readStdin request has a stdin listener armed.
C16_SingleFlightCapture ==
  Len(stdin.listeners) <= 1

\* the requests acknowledged in a step of the input source
AckedInStep ==
  {k \in ReadIds : Len(stdin'.readAcks[k]) > Len(stdin.readAcks[k])}

\* C20: a chunk of input is acknowledged to at most one readStdin request.
C20_ChunkToOneRequest ==
  [][\A chunk \in InputChunks :
       StdinData(chunk) => Cardinality(AckedInStep) <= 1]_vars

\* C20, for a chunk that arrives while one listener waits
C20_OneListener ==
  [][\A chunk \in InputChunks :
       (StdinData(chunk) /\ Len(stdin.listeners) = 1) =>
         AckedInStep = {stdin.listeners[1]}]_vars

PrintPieces == UNION {Chars(text) : text \in PrintTexts} \ {"\n", ""}

\* the printed pieces the terminal T shows, on the current line or above it
PrintedOn(T) == (Chars(T.cur) \cup T.scroll) \cap PrintPieces

\* the current line of T ends with a status line: what is before it on the
\* line was written by a print handled while Loading
StatusLineLast(T) ==
  /\ T.cur # <<>>
  /\ \E text \in AllTexts : Last(T.cur) \in StatusLines(text)

\* C18: text that a print wrote while Loading stays on the terminal through
\* every later spinner tick, stopLoading and deadline expiry, whether or not
\* it ends with a line separator.
C18_PrintNotLost ==
  [][(/\ term.loadingInterval # 0
      /\ StatusLineLast(term)
      /\ \/ \E iv \in term.intervals : Tick(iv)
         \/ StopLoadingEvt
         \/ \E t \in term.timeouts : DeadlineFire(t))
     => PrintedOn(term) \subseteq PrintedOn(term')]_vars

\* C18, for text that ends with a line separator: a print puts it above the
\* current line, and nothing that runs later removes it from there
C18_LineNotLost ==
  /\ [][\A text \in PrintTexts :
          (PrintEvt(text) /\ LastBreak(text) = Len(text)) =>
            (Chars(text) \ {"\n", ""}) \subseteq term'.scroll]_vars
  /\ [][term.scroll \subseteq term'.scroll]_vars

\* C19: while Idle (loadingInterval null), stopLoading changes nothing and
\* writes nothing, as a handler of its own and as the first call of readStdin
\* and startLoading, and print writes its text and nothing else; what is on
\* the current line when readStdin arms its listener is what was there.
C19_IdleFrame ==
  /\ [](term.loadingInterval = 0 => StopLoading(term) = term)
  /\ [][(term.loadingInterval = 0 /\ StopLoadingEvt) =>
          (term' = Fresh(term) /\ stdin' = stdin)]_vars
  /\ [][\A k \in ReadIds :
          (term.loadingInterval = 0 /\ ReadStdinEvt(k)) =>
            (term' = Fresh(term) /\ stdin'.listeners = Append(stdin.listeners, k))]_vars
  /\ [][\A text \in LoadingTexts, timeoutMs \in LoadingTimeouts :
          (term.loadingInterval = 0 /\ StartLoadingEvt(text, timeoutMs)) =>
            (term'.out = <<>> /\ term'.cur = term.cur /\ term'.scroll = term.scroll
             /\ term'.lastLoadingLineWritten = term.lastLoadingLineWritten)]_vars
  /\ [][\A text \in PrintTexts :
          (term.loadingInterval = 0 /\ PrintEvt(text)) =>
            (term'.out = <<text>> /\ term'.intervals = term.intervals
             /\ term'.loadingInterval = 0)]_vars

\* a prompt was printed while Idle and a readStdin followed: the listener
\* waits, the handler wrote nothing, the prompt is on the current line
C19_Witness ==
  /\ term.loadingInterval = 0
  /\ term.nextHandle = 2
  /\ term.cur = <<"p">>
  /\ term.out = <<>>
  /\ stdin.listeners = <<1>>

====
